---------------------------- MODULE Spec2Model ----------------------------
(***************************************************************************)
(* The Smart Scheduler agent: the conversation loop and its state machine  *)
(* (src/agent/scheduler_agent.py), the slot finder and its confidence      *)
(* score (src/agent/calendar_integration.py) and the date resolver         *)
(* (src/utils/date_parser.py).                                             *)
(*                                                                         *)
(* Conventions.  An optional Python value is a sequence: << >> is None and *)
(* <<v>> is the value v.  A time of day is a number of minutes after the   *)
(* local midnight of the target date; a date is a day number whose         *)
(* remainder modulo 7 is date.weekday() (0 is a Monday).  Utterances are   *)
(* the strings VoiceHandler.listen returns (lower case, stripped).  A      *)
(* confidence is a Python float; it is written here as an integer that     *)
(* orders exactly as the IEEE-754 doubles the code computes: 1000 per      *)
(* tenth plus the double's distance from that decimal in units of          *)
(* 2^-56 / 5, so 1.0 is 10000, 1.0 + 0.2 is 11984 and the literal 0.1 is   *)
(* 1002; 0 stands for any double below 0.1.                                *)
(***************************************************************************)
EXTENDS Integers, Sequences, FiniteSets, TLC

VARIABLES
    state,                 \* self.state
    meeting_request,       \* self.meeting_request
    last_suggested_slots,  \* self.last_suggested_slots
    current_options,       \* self.current_options
    selected_slot,         \* self.selected_slot (absent and None are both << >>)
    conversation_history,  \* len(self.conversation_history)
    current_retries,       \* self.current_retries
    running,               \* the while loop of start_conversation has not ended
    last_turn,             \* what the latest pass of the loop did (history variable)
    consecutive_failures,  \* failed turns in a row up to now (history variable)
    call                   \* a direct call of a pure function: its arguments and result

vars == <<state, meeting_request, last_suggested_slots, current_options,
          selected_slot, conversation_history, current_retries, running,
          last_turn, consecutive_failures, call>>

agent_vars == <<state, meeting_request, last_suggested_slots, current_options,
                selected_slot, conversation_history, current_retries, running,
                last_turn, consecutive_failures>>

-----------------------------------------------------------------------------
(* Bounds of the model *)

\* events one calendar day holds
MaxEvents == 2

\* history records kept before the model stops taking turns
MaxHistory == 3

\* the most events a calendar holds when the confidence score is taken on its own
MaxNeighbours == 4

-----------------------------------------------------------------------------
(* Python values *)

None == << >>

Some(v) == <<v>>

Truthy(opt) == opt # None

\* Python's `a or b` on optional values
OrElse(a, b) == IF a # None THEN a ELSE b

Min(S) == CHOOSE x \in S : \A y \in S : x <= y

Max2(a, b) == IF a >= b THEN a ELSE b

-----------------------------------------------------------------------------
(* Text *)

\* Python's `sub in text`
Contains(text, sub) ==
    \E i \in 1..(Len(text) - Len(sub) + 1) : SubSeq(text, i, i + Len(sub) - 1) = sub

ContainsAny(text, subs) == \E s \in subs : Contains(text, s)

CharAt(text, i) == SubSeq(text, i, i)

Digits == <<"0", "1", "2", "3", "4", "5", "6", "7", "8", "9">>

IsDigit(c) == \E d \in 1..10 : Digits[d] = c

DigitValue(c) == (CHOOSE d \in 1..10 : Digits[d] = c) - 1

Letters == {"a", "b", "c", "d", "e", "f", "g", "h", "i", "j", "k", "l", "m",
            "n", "o", "p", "q", "r", "s", "t", "u", "v", "w", "x", "y", "z", "_"}

\* a character the regular expression class \w matches
IsWordChar(c) == IsDigit(c) \/ c \in Letters

\* int() of a string of decimal digits
RECURSIVE ToInt(_)
ToInt(digits) ==
    IF Len(digits) = 0 THEN 0
    ELSE 10 * ToInt(SubSeq(digits, 1, Len(digits) - 1))
         + DigitValue(CharAt(digits, Len(digits)))

\* the last position of the run of digits that starts at position i
RECURSIVE DigitRunEnd(_, _)
DigitRunEnd(text, i) ==
    IF i < Len(text) /\ IsDigit(CharAt(text, i + 1))
    THEN DigitRunEnd(text, i + 1)
    ELSE i

\* the positions where \b(\d+)\b matches: a whole run of digits with no word
\* character on either side
WholeNumberStarts(text) ==
    {i \in 1..Len(text) :
        /\ IsDigit(CharAt(text, i))
        /\ (i = 1 \/ ~IsWordChar(CharAt(text, i - 1)))
        /\ LET j == DigitRunEnd(text, i)
           IN  j = Len(text) \/ ~IsWordChar(CharAt(text, j + 1))}

extract_selection_number(text) ==
    LET starts == WholeNumberStarts(text)
    IN  IF starts = {} THEN None
        ELSE LET i == Min(starts)
             IN  Some(ToInt(SubSeq(text, i, DigitRunEnd(text, i))))

\* word_to_num, in the order the dict is written (and iterated)
word_to_num ==
    << [key |-> "one", val |-> 1],   [key |-> "first", val |-> 1],  [key |-> "1", val |-> 1],
       [key |-> "two", val |-> 2],   [key |-> "second", val |-> 2], [key |-> "2", val |-> 2],
       [key |-> "three", val |-> 3], [key |-> "third", val |-> 3],  [key |-> "3", val |-> 3],
       [key |-> "four", val |-> 4],  [key |-> "fourth", val |-> 4], [key |-> "4", val |-> 4],
       [key |-> "five", val |-> 5],  [key |-> "fifth", val |-> 5],  [key |-> "5", val |-> 5] >>

extract_option_number(user_input) ==
    LET hits == {i \in 1..Len(word_to_num) : Contains(user_input, word_to_num[i].key)}
    IN  IF hits = {} THEN None ELSE Some(word_to_num[Min(hits)].val)

\* a faulty variant of exit_words, which has lost "exit"
exit_words_without_exit == {"goodbye", "quit", "stop"}

exit_words == {"goodbye", "exit", "quit", "stop"}

schedule_phrases ==
    {"do i have", "what's on", "am i busy", "anything on", "my schedule", "calendar for"}

meeting_keywords == {"schedule", "meeting", "book", "plan", "appointment", "call"}

recognition_errors == {"could not understand", "recognition error", "error"}

-----------------------------------------------------------------------------
(* Calendar: the slot finder and its confidence score *)

\* A preferred_time_range: kind is "dict", "tuple" or "other"; each bound is
\* absent ("missing"), null ("null"), not a number ("text") or a number of
\* hours ("num"), held in minutes so that 9.5 hours is 570.
Num(minutes) == [tag |-> "num", val |-> minutes]

Null == [tag |-> "null", val |-> 0]

Missing == [tag |-> "missing", val |-> 0]

DictRange(s, e) == [kind |-> "dict", start_hour |-> s, end_hour |-> e]

TupleRange(s, e) == [kind |-> "tuple", start_hour |-> s, end_hour |-> e]

\* the events a list-events query answers with, or the way it fails
CalendarOk(events) == [status |-> "ok", events |-> events]

CalendarHttpError == [status |-> "http_error", events |-> << >>]

CalendarException == [status |-> "exception", events |-> << >>]

\* get_events_for_date_range: an HttpError is answered with no events
get_events_for_date_range(reply) ==
    [raised |-> reply.status = "exception",
     events |-> IF reply.status = "ok" THEN reply.events ELSE << >>]

\* the two hours of the working window, in minutes (lines 100-114)
WorkingHours(preferred_time_range) ==
    IF preferred_time_range = None THEN <<9 * 60, 17 * 60>>
    ELSE LET r == preferred_time_range[1]
         IN  IF r.kind = "dict"
             THEN LET s == IF r.start_hour.tag = "missing" THEN Num(9 * 60) ELSE r.start_hour
                      e == IF r.end_hour.tag = "missing" THEN Num(17 * 60) ELSE r.end_hour
                  IN  IF s.tag = "num" /\ e.tag = "num"
                      THEN <<s.val, e.val>>
                      ELSE <<9 * 60, 17 * 60>>
             ELSE IF r.kind = "tuple"
             THEN IF r.start_hour.tag = "num" /\ r.end_hour.tag = "num"
                  THEN <<r.start_hour.val, r.end_hour.val>>
                  ELSE <<9 * 60, 17 * 60>>
             ELSE <<9 * 60, 17 * 60>>

\* datetime.time(hour, minute) accepts the hour and minute int() gives (lines 116-125)
ValidTimeOfDay(minutes) == 0 <= minutes /\ minutes < 24 * 60

\* events.sort(key=start_time): a stable sort
RECURSIVE InsertByStart(_, _)
InsertByStart(sorted, e) ==
    IF sorted = << >> THEN <<e>>
    ELSE IF e.start_time < sorted[1].start_time THEN <<e>> \o sorted
    ELSE <<sorted[1]>> \o InsertByStart(Tail(sorted), e)

RECURSIVE SortByStart(_)
SortByStart(events) ==
    IF events = << >> THEN << >>
    ELSE InsertByStart(SortByStart(SubSeq(events, 1, Len(events) - 1)),
                       events[Len(events)])

\* the double c - 0.2
FSub02(c) ==
    CASE c = 11984 -> 10000 [] c = 10000 -> 8016 [] c = 8016 -> 6032
      [] c = 6032 -> 4028   [] c = 4028 -> 2024  [] c = 11032 -> 9048
      [] c = 9048 -> 7064   [] c = 7064 -> 5080  [] c = 5080 -> 3076
      [] c = 3076 -> 1072   [] c = 9008 -> 6984  [] c = 6984 -> 4980
      [] c = 4980 -> 2976   [] OTHER -> 0

\* the double c - 0.1
FSub01(c) ==
    CASE c = 10000 -> 9008 [] c = 11984 -> 10952 [] c = 11032 -> 10000
      [] c = 6984 -> 5992  [] OTHER -> 0

\* lines 164-177: the time-of-day part, from 1.0
TimeOfDayConfidence(hour) ==
    LET c == IF 10 <= hour /\ hour <= 11 THEN 11984
             ELSE IF 14 <= hour /\ hour <= 15 THEN 11032
             ELSE IF hour < 9 \/ hour > 17 THEN 6984
             ELSE 10000
    IN  IF 12 <= hour /\ hour <= 13 THEN FSub01(c) ELSE c

\* a faulty variant of NeighbourPenalty, which also counts an event that ends
\* exactly when the slot starts
NeighbourPenaltyFromZero(c, start_time, slot_end, event) ==
    LET time_before == start_time - event.end_time
        time_after == event.start_time - slot_end
        c1 == IF 0 <= time_before /\ time_before < 15 THEN FSub02(c) ELSE c
    IN  IF 0 < time_after /\ time_after < 15 THEN FSub02(c1) ELSE c1

\* a faulty variant of NeighbourPenalty, whose window is 45 minutes wide
NeighbourPenaltyWithin45(c, start_time, slot_end, event) ==
    LET time_before == start_time - event.end_time
        time_after == event.start_time - slot_end
        c1 == IF 0 < time_before /\ time_before < 45 THEN FSub02(c) ELSE c
    IN  IF 0 < time_after /\ time_after < 45 THEN FSub02(c1) ELSE c1

\* lines 183-189: the penalties one event adds
NeighbourPenalty(c, start_time, slot_end, event) ==
    LET time_before == start_time - event.end_time
        time_after == event.start_time - slot_end
        c1 == IF 0 < time_before /\ time_before < 15 THEN FSub02(c) ELSE c
    IN  IF 0 < time_after /\ time_after < 15 THEN FSub02(c1) ELSE c1

RECURSIVE ApplyPenalties(_, _, _, _)
ApplyPenalties(c, start_time, slot_end, events) ==
    IF events = << >> THEN c
    ELSE ApplyPenalties(NeighbourPenalty(c, start_time, slot_end, events[1]),
                        start_time, slot_end, Tail(events))

calculate_slot_confidence(start_time, duration_minutes, events) ==
    LET hour == (start_time % (24 * 60)) \div 60
        slot_end == start_time + duration_minutes
    IN  Max2(1002, ApplyPenalties(TimeOfDayConfidence(hour), start_time, slot_end, events))

TimeSlot(date, start_time, end_time, confidence) ==
    [date |-> date, start_time |-> start_time, end_time |-> end_time,
     confidence |-> confidence]

\* a faulty variant of SlotBefore, which does not test that the gap holds the
\* meeting: the properties of the slot finder must tell it from the code
SlotBeforeUnchecked(date, cursor, limit, duration_minutes, events) ==
    <<TimeSlot(date, cursor, cursor + duration_minutes,
               calculate_slot_confidence(cursor, duration_minutes, events))>>

\* lines 141-145 and 151-155: the slot at the cursor, when it fits before `limit`
SlotBefore(date, cursor, limit, duration_minutes, events) ==
    IF (limit - cursor) * 60 >= duration_minutes * 60
       /\ cursor + duration_minutes <= limit
    THEN <<TimeSlot(date, cursor, cursor + duration_minutes,
                    calculate_slot_confidence(cursor, duration_minutes, events))>>
    ELSE << >>

\* lines 139-155: the walk over the sorted events, then the gap to the end of the day
RECURSIVE WalkEvents(_, _, _, _, _, _)
WalkEvents(date, i, cursor, end_of_day, duration_minutes, events) ==
    IF i > Len(events)
    THEN SlotBefore(date, cursor, end_of_day, duration_minutes, events)
    ELSE SlotBefore(date, cursor, events[i].start_time, duration_minutes, events)
         \o WalkEvents(date, i + 1, Max2(cursor, events[i].end_time), end_of_day,
                       duration_minutes, events)

\* a faulty variant of InsertByConfidence, which puts a slot before the slots
\* of its own confidence
RECURSIVE InsertBeforeEquals(_, _)
InsertBeforeEquals(sorted, s) ==
    IF sorted = << >> THEN <<s>>
    ELSE IF s.confidence >= sorted[1].confidence THEN <<s>> \o sorted
    ELSE <<sorted[1]>> \o InsertBeforeEquals(Tail(sorted), s)

\* slots.sort(key=confidence, reverse=True): stable, highest first
RECURSIVE InsertByConfidence(_, _)
InsertByConfidence(sorted, s) ==
    IF sorted = << >> THEN <<s>>
    ELSE IF s.confidence > sorted[1].confidence THEN <<s>> \o sorted
    ELSE <<sorted[1]>> \o InsertByConfidence(Tail(sorted), s)

RECURSIVE SortByConfidence(_)
SortByConfidence(slots) ==
    IF slots = << >> THEN << >>
    ELSE InsertByConfidence(SortByConfidence(SubSeq(slots, 1, Len(slots) - 1)),
                            slots[Len(slots)])

Truncate(seq, n) == SubSeq(seq, 1, IF Len(seq) < n THEN Len(seq) ELSE n)

\* find_optimal_slots; raised is an exception leaving the function
find_optimal_slots(reply, target_date, duration_minutes, preferred_time_range, max_slots) ==
    LET got == get_events_for_date_range(reply)
        hours == WorkingHours(preferred_time_range)
        events == SortByStart(got.events)
    IN  IF got.raised \/ ~ValidTimeOfDay(hours[1]) \/ ~ValidTimeOfDay(hours[2])
        THEN [raised |-> TRUE, slots |-> << >>]
        ELSE [raised |-> FALSE,
              slots |-> Truncate(SortByConfidence(
                            WalkEvents(target_date, 1, hours[1], hours[2],
                                       duration_minutes, events)), max_slots)]

\* the default of max_slots
DefaultMaxSlots == 5

-----------------------------------------------------------------------------
(* Date resolver *)

weekdays == <<"monday", "tuesday", "wednesday", "thursday", "friday", "saturday", "sunday">>

\* date.weekday(): 0 is Monday
Weekday(date) == date % 7

StartsAt(text, i, word) ==
    /\ 1 <= i
    /\ i + Len(word) - 1 <= Len(text)
    /\ SubSeq(text, i, i + Len(word) - 1) = word

\* re.search(prefix + "(monday|...|sunday)", text): the leftmost match, as
\* <<position, index of the weekday in `weekdays`>>, or None
WeekdayMatch(text, prefix) ==
    LET hits == {i \in 1..Len(text) :
                    \E w \in 1..7 : StartsAt(text, i, prefix \o weekdays[w])}
    IN  IF hits = {} THEN None
        ELSE LET i == Min(hits)
             IN  Some(<<i, CHOOSE w \in 1..7 : StartsAt(text, i, prefix \o weekdays[w])>>)

\* a faulty variant of parse_this_weekday, which stays in the week of today
this_weekday_of_the_week(today, target_weekday) ==
    today + (target_weekday - Weekday(today))

\* _parse_this_weekday, for weekdays.index(match.group(1)) = target_weekday
parse_this_weekday(today, target_weekday) ==
    LET days_ahead == target_weekday - Weekday(today)
    IN  today + (IF days_ahead <= 0 THEN days_ahead + 7 ELSE days_ahead)

\* a variant of parse_next_weekday that skips a whole week before it looks for
\* the weekday
next_weekday_a_week_on(today, target_weekday) ==
    today + 7 + ((target_weekday - Weekday(today)) % 7)

\* _parse_next_weekday
parse_next_weekday(today, target_weekday) ==
    today + (target_weekday - Weekday(today) + 7)

\* re.search(r"in (\d+) days?", text): the number of the leftmost match, or None
InDaysMatch(text) ==
    LET hits == {i \in 1..Len(text) :
                    /\ StartsAt(text, i, "in ")
                    /\ i + 3 <= Len(text)
                    /\ IsDigit(CharAt(text, i + 3))
                    /\ StartsAt(text, DigitRunEnd(text, i + 3) + 1, " day")}
    IN  IF hits = {} THEN None
        ELSE LET i == Min(hits)
             IN  Some(ToInt(SubSeq(text, i + 3, DigitRunEnd(text, i + 3))))

\* re.search(r"(\d+) days? from now", text)
DaysFromNowMatch(text) ==
    LET After(i) == DigitRunEnd(text, i) + 1
        hits == {i \in 1..Len(text) :
                    /\ IsDigit(CharAt(text, i))
                    /\ \/ StartsAt(text, After(i), " day from now")
                       \/ StartsAt(text, After(i), " days from now")}
    IN  IF hits = {} THEN None
        ELSE LET i == Min(hits)
             IN  Some(ToInt(SubSeq(text, i, DigitRunEnd(text, i))))

\* a variant of NextWeekDays in which "late" and "early" both count
NextWeekDaysAddingBoth(text) ==
    7 + (IF Contains(text, "late") THEN 3 ELSE 0)
      + (IF Contains(text, "early") THEN 1 ELSE 0)

\* lines 15-21
NextWeekDays(text) ==
    7 + (IF Contains(text, "late") THEN 3
         ELSE IF Contains(text, "early") THEN 1
         ELSE 0)

\* Lines 24-39. Every handler is callable, so each is called with the match:
\* the two lambdas that take no argument raise TypeError, which the bare
\* except swallows, and the loop goes on to the next pattern.
PatternDate(text, today) ==
    LET this_match == WeekdayMatch(text, "this ")
        next_match == WeekdayMatch(text, "next ")
        in_days == InDaysMatch(text)
        from_now == DaysFromNowMatch(text)
    IN  IF this_match # None THEN Some(parse_this_weekday(today, this_match[1][2] - 1))
        ELSE IF next_match # None THEN Some(parse_next_weekday(today, next_match[1][2] - 1))
        ELSE IF in_days # None THEN Some(today + in_days[1])
        ELSE IF from_now # None THEN Some(today + from_now[1])
        ELSE None

\* a faulty variant of parse_complex_date, which tries the patterns before
\* "next week"
parse_patterns_first(text, today, fuzzy) ==
    LET by_pattern == PatternDate(text, today)
    IN  IF by_pattern # None THEN by_pattern
        ELSE IF Contains(text, "next week") THEN Some(today + NextWeekDays(text))
        ELSE fuzzy

\* parse_complex_date; `fuzzy` is what dateutil's fuzzy parser makes of the
\* text (None when it raises)
parse_complex_date(text, today, fuzzy) ==
    IF Contains(text, "next week") THEN Some(today + NextWeekDays(text))
    ELSE LET by_pattern == PatternDate(text, today)
         IN  IF by_pattern # None THEN by_pattern ELSE fuzzy

-----------------------------------------------------------------------------
(* What the collaborators may answer: the inputs of the model *)

\* the day the agent is constructed on (AdvancedDateParser.today); a Wednesday
Today == 2

\* what listen() returns on a failure: None on a timeout, or an error string
ListenFailures == {None, Some("could not understand")}

\* recognised utterances
Utterances ==
    {"schedule a meeting", "option 1", "option 5", "option 15", "the second one",
     "none of these", "yes", "next week", "what's on my schedule", "goodbye",
     "exit option 1"}

\* what dateutil's fuzzy parser makes of an utterance
FuzzyDates == {None, Some(Today + 7)}

Event(start_time, end_time) == [start_time |-> start_time, end_time |-> end_time]

\* busy intervals of the calendar the agent talks to
BusyIntervals ==
    {Event(9 * 60, 17 * 60), Event(10 * 60, 10 * 60 + 30), Event(13 * 60, 14 * 60)}

\* the events of one day, as list_events orders them (by start time)
RECURSIVE CalendarsOf(_, _)
CalendarsOf(intervals, n) ==
    IF n = 0 THEN {<< >>}
    ELSE LET shorter == CalendarsOf(intervals, n - 1)
         IN  shorter \cup
             {Append(c, e) : c \in {d \in shorter : Len(d) = n - 1},
                             e \in intervals}

StartOrdered(events) ==
    \A i \in 1..(Len(events) - 1) : events[i].start_time < events[i + 1].start_time

DayCalendars == {c \in CalendarsOf(BusyIntervals, MaxEvents) : StartOrdered(c)}

CalendarReplies ==
    {CalendarOk(c) : c \in DayCalendars} \cup {CalendarHttpError, CalendarException}

BookingResults == {"success", "http_error", "exception"}

\* durations, dates and time ranges a request of the model can hold
Durations == {30}

RequestDates == {Today + 7}

MorningRange == DictRange(Num(9 * 60), Num(12 * 60))

TimeRanges == {None, Some(MorningRange)}

\* What the code computes from an utterance, computed once per utterance
SaysExit == [u \in Utterances |-> ContainsAny(u, exit_words)]

OptionNumber == [u \in Utterances |-> extract_option_number(u)]

SelectionNumber == [u \in Utterances |-> extract_selection_number(u)]

AsksSchedule == [u \in Utterances |-> ContainsAny(u, schedule_phrases)]

MeetingKeyword == [u \in Utterances |-> ContainsAny(u, meeting_keywords)]

SaysYes == [u \in Utterances |-> Contains(u, "yes")]

SaysNo == [u \in Utterances |-> Contains(u, "no")]

ParsedDate ==
    [u \in Utterances |-> [fuzzy \in FuzzyDates |-> parse_complex_date(u, Today, fuzzy)]]

\* find_optimal_slots with the default max_slots, computed once per argument
OptimalSlots ==
    [reply \in CalendarReplies, date \in RequestDates, duration \in Durations,
     range \in TimeRanges |->
        find_optimal_slots(reply, date, duration, range, DefaultMaxSlots)]

-----------------------------------------------------------------------------
(* The agent: data *)

ConversationState ==
    {"GREETING", "COLLECTING_DURATION", "COLLECTING_TIME_PREFERENCE", "SHOWING_OPTIONS",
     "CONFIRMING_SELECTION", "SCHEDULING", "HANDLING_CONFLICT", "COMPLETE"}

\* MeetingRequest()
FreshMeetingRequest ==
    [duration_minutes |-> None, preferred_date |-> None, time_range |-> None,
     title |-> "Scheduled Meeting", attendees |-> << >>,
     urgency |-> "medium", flexibility |-> "flexible"]

\* the ceiling of five failed turns, in place of self.max_retries
five_retries == 3 + 2

\* self.max_retries
max_retries == 3

\* __init__ binds the calendar manager to self.calendar_manager only: reading
\* self.calendar raises AttributeError
agent_has_calendar == FALSE

\* What json.loads gives extract_meeting_info to return.  kind "dict" is an
\* object with the six fields; "error" is the sentinel {"error": "LLM failure"};
\* "null" is a falsy payload; "list" is a JSON value that is not an object.
\* preferred_date is null, a YYYY-MM-DD string (held as the date it names) or
\* a string strptime rejects.
DateNull == [tag |-> "null", val |-> 0]

DateString(date) == [tag |-> "date", val |-> date]

DateMalformed == [tag |-> "malformed", val |-> 0]

Extraction(kind, duration, date, range, urgency, flexibility) ==
    [kind |-> kind, duration_minutes |-> duration, preferred_date |-> date,
     time_range |-> range, urgency |-> urgency, flexibility |-> flexibility]

NoInformation(kind) == Extraction(kind, None, DateNull, None, None, None)

\* a faulty variant of update_meeting_request, which assigns the duration and
\* the time range of the payload even when they are null
update_overwriting(request, extracted_info) ==
    IF extracted_info.kind \in {"null", "error"}
    THEN [raised |-> FALSE, request |-> request]
    ELSE IF extracted_info.kind = "list" \/ extracted_info.preferred_date.tag = "malformed"
    THEN [raised |-> TRUE, request |-> request]
    ELSE [raised |-> FALSE,
          request |-> [request EXCEPT
                         !.duration_minutes = extracted_info.duration_minutes,
                         !.time_range = extracted_info.time_range]]

\* update_meeting_request: the request after the merge, and whether it raised
update_meeting_request(request, extracted_info) ==
    IF extracted_info.kind = "null"
    THEN [raised |-> FALSE, request |-> request]
    ELSE IF extracted_info.kind = "list"
    THEN [raised |-> TRUE, request |-> request]
    ELSE LET info == IF extracted_info.kind = "error"
                     THEN NoInformation("error") ELSE extracted_info
             r1 == [request EXCEPT !.duration_minutes =
                        OrElse(info.duration_minutes, request.duration_minutes)]
         IN  IF info.preferred_date.tag = "malformed"
             THEN [raised |-> TRUE, request |-> r1]
             ELSE [raised |-> FALSE,
                   request |->
                     [r1 EXCEPT
                        !.preferred_date =
                            IF info.preferred_date.tag = "date"
                            THEN Some(info.preferred_date.val)
                            ELSE request.preferred_date,
                        !.time_range = OrElse(info.time_range, request.time_range),
                        !.flexibility =
                            IF info.flexibility # None THEN info.flexibility[1]
                            ELSE request.flexibility,
                        !.urgency =
                            IF info.urgency # None THEN info.urgency[1]
                            ELSE request.urgency]]

\* payloads of the intent extraction service
Extractions ==
    {NoInformation("error"), NoInformation("list"),
     Extraction("dict", Some(30), DateNull, None, None, None),
     Extraction("dict", None, DateString(Today + 7), None, None, None),
     Extraction("dict", Some(30), DateMalformed, None, None, None),
     Extraction("dict", None, DateNull, Some(MorningRange), Some("high"), Some("rigid"))}

-----------------------------------------------------------------------------
(* The agent: the handlers of process_user_input.  Each gives the agent's   *)
(* fields after it ran, whether it raised, and what it asked of the         *)
(* calendar.                                                                *)

Outcome(st, request, offered, options, selected, raised, handler, search, booking) ==
    [state |-> st, meeting_request |-> request, last_suggested_slots |-> offered,
     current_options |-> options, selected_slot |-> selected, raised |-> raised,
     handler |-> handler, search |-> search, booking |-> booking]

\* the handler returns (or raises) having changed only the state and the request
Returns(st, request, raised, handler) ==
    Outcome(st, request, last_suggested_slots, current_options, selected_slot,
            raised, handler, None, None)

\* a faulty variant of handle_greeting, which asks for the duration even when
\* it is known
greeting_always_asks_duration(user_input, request) ==
    IF MeetingKeyword[user_input]
    THEN Returns("COLLECTING_DURATION", request, FALSE, "greeting")
    ELSE Returns(state, request, FALSE, "greeting")

handle_greeting(user_input, request) ==
    IF MeetingKeyword[user_input]
    THEN IF Truthy(request.duration_minutes)
         THEN Returns("COLLECTING_TIME_PREFERENCE", request, FALSE, "greeting")
         ELSE Returns("COLLECTING_DURATION", request, FALSE, "greeting")
    ELSE Returns(state, request, FALSE, "greeting")

handle_duration_collection(request) ==
    IF Truthy(request.duration_minutes)
    THEN Returns("COLLECTING_TIME_PREFERENCE", request, FALSE, "duration")
    ELSE Returns(state, request, FALSE, "duration")

\* a slot search: find_optimal_slots on the request's date, duration and range
\* (duration_minutes * 60 raises TypeError when the duration is None)
SlotSearch(request, reply) ==
    IF request.duration_minutes = None
    THEN [raised |-> TRUE, slots |-> << >>]
    ELSE OptimalSlots[reply, request.preferred_date[1], request.duration_minutes[1],
                      request.time_range]

SearchRecord(reply, found) ==
    Some([status |-> reply.status, raised |-> found.raised, slots |-> found.slots])

\* a faulty variant of handle_time_preference_collection, which presents the
\* result of the search without testing that it holds a slot
time_preference_without_conflict(user_input, request, fuzzy, reply) ==
    LET parsed_date == ParsedDate[user_input][fuzzy]
        r1 == IF request.preferred_date = None
              THEN [request EXCEPT !.preferred_date = parsed_date]
              ELSE request
    IN  IF r1.preferred_date = None
        THEN Returns(state, request, FALSE, "time_preference")
        ELSE LET found == SlotSearch(r1, reply)
             IN  Outcome(IF found.raised THEN state ELSE "SHOWING_OPTIONS", r1,
                         IF found.raised THEN last_suggested_slots ELSE found.slots,
                         current_options, selected_slot, found.raised,
                         "time_preference", SearchRecord(reply, found), None)

handle_time_preference_collection(user_input, request, fuzzy, reply) ==
    LET parsed_date == ParsedDate[user_input][fuzzy]
        r1 == IF request.preferred_date = None
              THEN [request EXCEPT !.preferred_date = parsed_date]
              ELSE request
    IN  IF r1.preferred_date = None
        THEN Returns(state, request, FALSE, "time_preference")
        ELSE LET found == SlotSearch(r1, reply)
             IN  IF found.raised
                 THEN Outcome(state, r1, last_suggested_slots, current_options,
                              selected_slot, TRUE, "time_preference",
                              SearchRecord(reply, found), None)
                 ELSE IF found.slots = << >>
                 THEN Outcome("HANDLING_CONFLICT", r1, last_suggested_slots,
                              current_options, selected_slot, FALSE, "time_preference",
                              SearchRecord(reply, found), None)
                 ELSE Outcome("SHOWING_OPTIONS", r1, found.slots, current_options,
                              selected_slot, FALSE, "time_preference",
                              SearchRecord(reply, found), None)

\* a faulty variant of handle_option_selection, which takes an utterance that
\* selects nothing as the rejection of every option
option_selection_with_rejection(user_input, request) ==
    LET selection == SelectionNumber[user_input]
    IN  IF selection # None /\ selection[1] # 0
           /\ 1 <= selection[1] /\ selection[1] <= Len(current_options)
        THEN LET chosen == current_options[selection[1]]
             IN  Outcome("CONFIRMING_SELECTION",
                         [request EXCEPT !.preferred_date = Some(chosen.date)],
                         last_suggested_slots, current_options, Some(chosen),
                         FALSE, "option_selection", None, None)
        ELSE Returns("HANDLING_CONFLICT", request, FALSE, "option_selection")

handle_option_selection(user_input, request) ==
    LET selection == SelectionNumber[user_input]
    IN  IF selection # None /\ selection[1] # 0
           /\ 1 <= selection[1] /\ selection[1] <= Len(current_options)
        THEN LET chosen == current_options[selection[1]]
             IN  Outcome("CONFIRMING_SELECTION",
                         [request EXCEPT !.preferred_date = Some(chosen.date)],
                         last_suggested_slots, current_options, Some(chosen),
                         FALSE, "option_selection", None, None)
        ELSE Returns(state, request, FALSE, "option_selection")

\* schedule_meeting: "success" is True, "http_error" is False, "exception" is
\* any other exception of the insert call, which schedule_meeting lets through
BookingRecord(slot, result) == Some([slot |-> slot, result |-> result])

handle_confirmation(user_input, request, booking_result) ==
    IF SaysYes[user_input]
    THEN IF ~agent_has_calendar
         THEN Returns("SCHEDULING", request, TRUE, "confirmation")
         ELSE IF selected_slot = None
         THEN Returns("SCHEDULING", request, TRUE, "confirmation")
         ELSE Outcome(IF booking_result = "success" THEN "COMPLETE" ELSE "SCHEDULING",
                      request, last_suggested_slots, current_options, selected_slot,
                      booking_result = "exception", "confirmation", None,
                      BookingRecord(selected_slot[1], booking_result))
    ELSE IF SaysNo[user_input]
    THEN Returns("SHOWING_OPTIONS", request, FALSE, "confirmation")
    ELSE Returns(state, request, FALSE, "confirmation")

\* suggest_alternative_times: the days after original_date, weekends skipped
\* when original_date is a weekday, until five slots are gathered.  The model
\* answers every day's query with the same reply.
RECURSIVE AlternativesFrom(_, _, _, _, _)
AlternativesFrom(days_ahead, original_date, duration_minutes, reply, alternatives) ==
    IF days_ahead > 7 THEN [raised |-> FALSE, slots |-> Truncate(alternatives, 5)]
    ELSE LET alt_date == original_date + days_ahead
         IN  IF Weekday(alt_date) >= 5 /\ Weekday(original_date) < 5
             THEN AlternativesFrom(days_ahead + 1, original_date, duration_minutes,
                                   reply, alternatives)
             ELSE LET found == find_optimal_slots(reply, alt_date, duration_minutes,
                                                  None, 5)
                      more == alternatives \o found.slots
                  IN  IF found.raised THEN [raised |-> TRUE, slots |-> << >>]
                      ELSE IF Len(more) >= 5
                      THEN [raised |-> FALSE, slots |-> Truncate(more, 5)]
                      ELSE AlternativesFrom(days_ahead + 1, original_date,
                                            duration_minutes, reply, more)

suggest_alternative_times(original_date, duration_minutes, reply) ==
    AlternativesFrom(1, original_date, duration_minutes, reply, << >>)

\* handle_no_slots_available, entered with the state set to HANDLING_CONFLICT
handle_no_slots_available(request, reply, search) ==
    LET alternatives == suggest_alternative_times(request.preferred_date[1],
                                                  request.duration_minutes[1], reply)
    IN  IF alternatives.raised
        THEN Outcome("HANDLING_CONFLICT", request, last_suggested_slots, current_options,
                     selected_slot, TRUE, "conflict", search, None)
        ELSE IF alternatives.slots # << >>
        THEN Outcome("SHOWING_OPTIONS", request, last_suggested_slots, alternatives.slots,
                     selected_slot, FALSE, "conflict", search, None)
        ELSE Outcome("HANDLING_CONFLICT", request, last_suggested_slots, current_options,
                     selected_slot, FALSE, "conflict", search, None)

\* find_and_present_options: its first statement reads self.calendar
find_and_present_options(request, reply) ==
    IF ~agent_has_calendar
    THEN Returns(state, request, TRUE, "conflict")
    ELSE LET found == SlotSearch(request, reply)
         IN  IF found.raised
             THEN Outcome(state, request, last_suggested_slots, current_options,
                          selected_slot, TRUE, "conflict", SearchRecord(reply, found), None)
             ELSE IF found.slots # << >>
             THEN Outcome("SHOWING_OPTIONS", request, last_suggested_slots, found.slots,
                          selected_slot, FALSE, "conflict", SearchRecord(reply, found), None)
             ELSE handle_no_slots_available(request, reply, SearchRecord(reply, found))

\* handle_conflict_resolution: a second extraction of the same utterance is merged
handle_conflict_resolution(request, extracted_again, reply) ==
    LET merged == update_meeting_request(request, extracted_again)
    IN  IF merged.raised
        THEN Returns(state, merged.request, TRUE, "conflict")
        ELSE IF Truthy(merged.request.duration_minutes)
                /\ Truthy(merged.request.preferred_date)
        THEN find_and_present_options(merged.request, reply)
        ELSE Returns(state, merged.request, FALSE, "conflict")

\* lines 146-151: the "check my schedule" interrupt; `fuzzy` is what
\* nlp.extract_date (dateutil's fuzzy parser) makes of the utterance
schedule_check(request, fuzzy) ==
    IF fuzzy # None
    THEN Returns(state, request, ~agent_has_calendar, "schedule_check")
    ELSE Returns(state, request, FALSE, "schedule_check")

\* process_user_input
process_user_input(user_input, extracted_info, extracted_again, fuzzy, reply, booking_result) ==
    LET merged == update_meeting_request(meeting_request, extracted_info)
        request == merged.request
    IN  IF merged.raised THEN Returns(state, request, TRUE, "update")
        ELSE IF AsksSchedule[user_input]
        THEN schedule_check(request, fuzzy)
        ELSE IF state = "GREETING" THEN handle_greeting(user_input, request)
        ELSE IF state = "COLLECTING_DURATION" THEN handle_duration_collection(request)
        ELSE IF state = "COLLECTING_TIME_PREFERENCE"
        THEN handle_time_preference_collection(user_input, request, fuzzy, reply)
        ELSE IF state = "SHOWING_OPTIONS" THEN handle_option_selection(user_input, request)
        ELSE IF state = "CONFIRMING_SELECTION"
        THEN handle_confirmation(user_input, request, booking_result)
        ELSE IF state = "HANDLING_CONFLICT"
        THEN handle_conflict_resolution(request, extracted_again, reply)
        ELSE Returns(state, request, FALSE, "unknown")

-----------------------------------------------------------------------------
(* The conversation loop: start_conversation *)

Turn(kind, heard, outcome, reset) ==
    [kind |-> kind, heard |-> heard, from |-> state, raised |-> outcome.raised,
     handler |-> outcome.handler, search |-> outcome.search,
     booking |-> outcome.booking, reset |-> reset]

\* __init__
InitAgent ==
    /\ state = "GREETING"
    /\ meeting_request = FreshMeetingRequest
    /\ last_suggested_slots = << >>
    /\ current_options = << >>
    /\ selected_slot = None
    /\ conversation_history = 0
    /\ current_retries = 0
    /\ running = TRUE
    /\ last_turn = Turn("start", None, Returns("GREETING", FreshMeetingRequest, FALSE, "none"), FALSE)
    /\ consecutive_failures = 0

\* the `while` condition, for a loop that no `break` has left
LoopActive == running /\ state # "COMPLETE"

\* reset_conversation (last_suggested_slots is not among the fields it assigns)
reset_conversation ==
    /\ state' = "GREETING"
    /\ meeting_request' = FreshMeetingRequest
    /\ current_options' = << >>
    /\ selected_slot' = None
    /\ conversation_history' = 0
    /\ current_retries' = 0

\* a pass of the loop that fails (handle_speech_error, or the `except
\* Exception` branch) after the fields became those of `outcome`
FailedTurn(kind, heard, outcome) ==
    LET forced == current_retries + 1 >= max_retries
    IN  /\ IF forced
           THEN reset_conversation
           ELSE /\ state' = outcome.state
                /\ meeting_request' = outcome.meeting_request
                /\ current_options' = outcome.current_options
                /\ selected_slot' = outcome.selected_slot
                /\ current_retries' = current_retries + 1
                /\ UNCHANGED conversation_history
        /\ last_suggested_slots' = outcome.last_suggested_slots
        /\ consecutive_failures' = IF forced THEN 0 ELSE consecutive_failures + 1
        /\ last_turn' = Turn(kind, heard, outcome, forced)
        /\ UNCHANGED <<running, call>>

\* lines 74-76: nothing was recognised
SpeechError ==
    /\ LoopActive
    /\ \E heard \in ListenFailures :
          FailedTurn("speech_error", heard,
                     Returns(state, meeting_request, FALSE, "none"))

\* lines 79-81: an exit word ends the loop
ExitCommand ==
    /\ LoopActive
    /\ \E user_input \in Utterances :
          /\ SaysExit[user_input]
          /\ running' = FALSE
          /\ consecutive_failures' = 0
          /\ last_turn' = Turn("exit", Some(user_input),
                               Returns(state, meeting_request, FALSE, "none"), FALSE)
          /\ UNCHANGED <<state, meeting_request, last_suggested_slots, current_options,
                         selected_slot, conversation_history, current_retries, call>>

\* line 85 and 87: the utterance names one of the slots last suggested
SelectsOption(user_input) ==
    LET option_num == OptionNumber[user_input]
    IN  /\ option_num # None
        /\ last_suggested_slots # << >>
        /\ 0 <= option_num[1] - 1
        /\ option_num[1] - 1 < Len(last_suggested_slots)

\* lines 84-99: the slot is booked at once and the pass ends with `continue`
OptionBooking ==
    /\ LoopActive
    /\ \E user_input \in Utterances, result \in BookingResults :
          /\ ~SaysExit[user_input]
          /\ SelectsOption(user_input)
          /\ LET slot == last_suggested_slots[OptionNumber[user_input][1]]
                 outcome == Outcome(state, meeting_request, last_suggested_slots,
                                    current_options, selected_slot,
                                    result = "exception", "none", None,
                                    BookingRecord(slot, result))
             IN  IF result = "exception"
                 THEN FailedTurn("option_booking", Some(user_input), outcome)
                 ELSE /\ last_turn' = Turn("option_booking", Some(user_input), outcome, FALSE)
                      /\ consecutive_failures' = 0
                      /\ UNCHANGED <<state, meeting_request, last_suggested_slots,
                                     current_options, selected_slot, conversation_history,
                                     current_retries, running, call>>

\* The collaborators process_user_input consults for this utterance once the
\* first extraction is merged into `request`: the model draws an answer only
\* from those it consults.
Dispatches(user_input, merged) == ~merged.raised /\ ~AsksSchedule[user_input]

SecondExtractions(user_input, extracted_info, merged) ==
    IF Dispatches(user_input, merged) /\ state = "HANDLING_CONFLICT"
    THEN {extracted_info, NoInformation("error")}
    ELSE {NoInformation("error")}

FuzzyAnswers(user_input, merged) ==
    IF ~merged.raised
       /\ \/ AsksSchedule[user_input]
          \/ state = "COLLECTING_TIME_PREFERENCE" /\ merged.request.preferred_date = None
    THEN FuzzyDates
    ELSE {None}

CalendarAnswers(user_input, merged, fuzzy) ==
    IF Dispatches(user_input, merged)
       /\ \/ /\ state = "COLLECTING_TIME_PREFERENCE"
             /\ \/ merged.request.preferred_date # None
                \/ ParsedDate[user_input][fuzzy] # None
          \/ state = "HANDLING_CONFLICT" /\ agent_has_calendar
    THEN CalendarReplies
    ELSE {CalendarOk(<< >>)}

BookingAnswers(user_input, merged) ==
    IF Dispatches(user_input, merged) /\ state = "CONFIRMING_SELECTION"
       /\ agent_has_calendar
    THEN BookingResults
    ELSE {"success"}

\* lines 101-116: the state machine handles the utterance
ProcessUserInput ==
    /\ LoopActive
    /\ \E user_input \in Utterances, extracted_info \in Extractions :
          /\ ~SaysExit[user_input]
          /\ ~SelectsOption(user_input)
          /\ LET merged == update_meeting_request(meeting_request, extracted_info)
             IN  \E extracted_again \in SecondExtractions(user_input, extracted_info, merged),
                    fuzzy \in FuzzyAnswers(user_input, merged),
                    booking_result \in BookingAnswers(user_input, merged) :
                    \E reply \in CalendarAnswers(user_input, merged, fuzzy) :
                LET outcome == process_user_input(user_input, extracted_info,
                                                  extracted_again, fuzzy, reply,
                                                  booking_result)
                IN  IF outcome.raised
                    THEN FailedTurn("processed", Some(user_input), outcome)
                    ELSE /\ conversation_history < MaxHistory
                         /\ state' = outcome.state
                         /\ meeting_request' = outcome.meeting_request
                         /\ last_suggested_slots' = outcome.last_suggested_slots
                         /\ current_options' = outcome.current_options
                         /\ selected_slot' = outcome.selected_slot
                         /\ conversation_history' = conversation_history + 1
                         /\ current_retries' = 0
                         /\ consecutive_failures' = 0
                         /\ last_turn' = Turn("processed", Some(user_input), outcome, FALSE)
                         /\ UNCHANGED <<running, call>>

NoCall == [op |-> "none"]

Init == InitAgent /\ call = NoCall

Next == SpeechError \/ ExitCommand \/ OptionBooking \/ ProcessUserInput

Spec == Init /\ [][Next]_vars

-----------------------------------------------------------------------------
(* The slot finder on its own: find_optimal_slots applied to drawn arguments *)

\* busy intervals a day can hold: before, inside, across and after the working day
SlotIntervals ==
    {Event(8 * 60, 9 * 60 + 30), Event(9 * 60, 17 * 60), Event(10 * 60, 10 * 60 + 30),
     Event(10 * 60 + 30, 11 * 60), Event(13 * 60, 14 * 60), Event(15 * 60, 16 * 60),
     Event(16 * 60 + 45, 18 * 60), Event(18 * 60, 19 * 60)}

\* the events of a reply in any order, with no interval twice
SlotCalendars ==
    {c \in CalendarsOf(SlotIntervals, MaxEvents) :
        \A i, j \in 1..Len(c) : i # j => c[i] # c[j]}

SlotReplies ==
    {CalendarOk(c) : c \in SlotCalendars} \cup {CalendarHttpError, CalendarException}

SlotDurations == {30, 60}

\* no range, a morning, and an end_hour of 24 (which datetime.time rejects)
SlotRanges ==
    {None, Some(MorningRange), Some(TupleRange(Num(9 * 60 + 30), Num(24 * 60)))}

SlotLimits == {2, DefaultMaxSlots}

SlotCall(reply, duration_minutes, preferred_time_range, max_slots) ==
    [op |-> "find_optimal_slots", reply |-> reply, target_date |-> Today + 7,
     duration_minutes |-> duration_minutes,
     preferred_time_range |-> preferred_time_range, max_slots |-> max_slots,
     returned |-> FALSE, raised |-> FALSE, slots |-> << >>]

InitSlots ==
    /\ InitAgent
    /\ call \in {SlotCall(reply, duration_minutes, preferred_time_range, max_slots) :
                    reply \in SlotReplies, duration_minutes \in SlotDurations,
                    preferred_time_range \in SlotRanges, max_slots \in SlotLimits}

\* the call is made: it returns its slots, or raises
FindOptimalSlots ==
    /\ call.op = "find_optimal_slots"
    /\ ~call.returned /\ ~call.raised
    /\ LET found == find_optimal_slots(call.reply, call.target_date,
                                       call.duration_minutes,
                                       call.preferred_time_range, call.max_slots)
       IN  call' = [call EXCEPT !.returned = ~found.raised, !.raised = found.raised,
                                !.slots = found.slots]
    /\ UNCHANGED agent_vars

NextSlots == FindOptimalSlots

SpecSlots == InitSlots /\ [][NextSlots]_vars

-----------------------------------------------------------------------------
(* The confidence score on its own: _calculate_slot_confidence applied to    *)
(* drawn arguments                                                           *)

\* slots of the morning sweet spot, of the hour after lunch, of the half hour
\* after the default window closes and of the evening
ConfidenceStarts == {10 * 60, 12 * 60, 17 * 60 + 30, 18 * 60}

\* events around a slot: ending 0, 1, 14 and 15 minutes before it starts,
\* starting 0, 1, 14 and 15 minutes after it ends, and one over the slot itself
NeighbourIntervals(start_time, slot_end) ==
    {Event(start_time - 45, start_time - gap) : gap \in {0, 1, 14, 15}}
    \cup {Event(slot_end + gap, slot_end + 45) : gap \in {0, 1, 14, 15}}
    \cup {Event(start_time, slot_end)}

ConfidenceCall(start_time, duration_minutes, events) ==
    [op |-> "calculate_slot_confidence", start_time |-> start_time,
     duration_minutes |-> duration_minutes, events |-> events,
     returned |-> FALSE, confidence |-> 0]

InitConfidence ==
    /\ InitAgent
    /\ \E start_time \in ConfidenceStarts :
          call \in {ConfidenceCall(start_time, 30, events) :
                       events \in CalendarsOf(NeighbourIntervals(start_time, start_time + 30),
                                              MaxNeighbours)}

\* the call is made and returns the score
CalculateSlotConfidence ==
    /\ call.op = "calculate_slot_confidence"
    /\ ~call.returned
    /\ call' = [call EXCEPT !.returned = TRUE,
                            !.confidence = calculate_slot_confidence(
                                call.start_time, call.duration_minutes, call.events)]
    /\ UNCHANGED agent_vars

NextConfidence == CalculateSlotConfidence

SpecConfidence == InitConfidence /\ [][NextConfidence]_vars

-----------------------------------------------------------------------------
(* The date resolver on its own: parse_complex_date applied to drawn texts,  *)
(* on each day of a week                                                     *)

\* texts as line 12 leaves them: lower case, stripped
DateTexts ==
    {"tomorrow", "day after tomorrow", "tomorrow at noon",
     "next monday", "next tuesday", "next wednesday", "next thursday",
     "next friday", "next saturday", "next sunday",
     "this monday", "this wednesday", "this sunday",
     "next week", "early next week", "late next week", "early or late next week",
     "next monday next week", "in 3 days next week", "in 3 days", "someday"}

\* self.today: one date for each weekday, the first a Wednesday
ReferenceDates == Today..(Today + 6)

DateCall(text, today, fuzzy) ==
    [op |-> "parse_complex_date", text |-> text, today |-> today, fuzzy |-> fuzzy,
     returned |-> FALSE, result |-> None]

InitDates ==
    /\ InitAgent
    /\ call \in {DateCall(text, today, fuzzy) :
                    text \in DateTexts, today \in ReferenceDates, fuzzy \in FuzzyDates}

\* the call is made and returns a date or None
ParseComplexDate ==
    /\ call.op = "parse_complex_date"
    /\ ~call.returned
    /\ call' = [call EXCEPT !.returned = TRUE,
                            !.result = parse_complex_date(call.text, call.today,
                                                          call.fuzzy)]
    /\ UNCHANGED agent_vars

NextDates == ParseComplexDate

SpecDates == InitDates /\ [][NextDates]_vars

-----------------------------------------------------------------------------
(* One pass of the loop from a given configuration of the agent.  The        *)
(* handlers are methods of the agent: process_user_input runs the handler of *)
(* whatever self.state holds, with the fields as they are.  The              *)
(* configurations are the ones the handlers' own assignments describe: a     *)
(* request whose duration (and date) is known, the slots of a search as both *)
(* the suggested slots (line 213) and the current options (line 234), and    *)
(* one of them as the selected slot (line 286).                              *)

KnownDuration == [FreshMeetingRequest EXCEPT !.duration_minutes = Some(30)]

KnownDurationAndDate == [KnownDuration EXCEPT !.preferred_date = Some(Today + 7)]

\* the slots of a search on a day with two meetings
PresentedSlots ==
    OptimalSlots[CalendarOk(<<Event(10 * 60, 10 * 60 + 30), Event(13 * 60, 14 * 60)>>),
                 Today + 7, 30, None].slots

Configuration(st, request, offered, options, selected) ==
    [state |-> st, meeting_request |-> request, last_suggested_slots |-> offered,
     current_options |-> options, selected_slot |-> selected]

Configurations ==
    {Configuration("COLLECTING_TIME_PREFERENCE", request, << >>, << >>, None) :
        request \in {KnownDuration, KnownDurationAndDate}}
    \cup {Configuration("SHOWING_OPTIONS", KnownDurationAndDate, PresentedSlots,
                        options, None) : options \in {<< >>, PresentedSlots}}
    \cup {Configuration("CONFIRMING_SELECTION", KnownDurationAndDate, PresentedSlots,
                        PresentedSlots, Some(PresentedSlots[k])) :
             k \in 1..Len(PresentedSlots)}
    \cup {Configuration("HANDLING_CONFLICT", KnownDurationAndDate, << >>, << >>, None)}

InitHandlers ==
    /\ \E c \in Configurations :
          /\ state = c.state
          /\ meeting_request = c.meeting_request
          /\ last_suggested_slots = c.last_suggested_slots
          /\ current_options = c.current_options
          /\ selected_slot = c.selected_slot
          /\ last_turn = Turn("start", None,
                              Returns(c.state, c.meeting_request, FALSE, "none"), FALSE)
    /\ conversation_history = 0
    /\ current_retries \in 0..(max_retries - 1)
    /\ running = TRUE
    /\ consecutive_failures = current_retries
    /\ call = NoCall

\* one pass of the loop
FirstPass == last_turn.kind = "start"

NextHandlers ==
    \/ FirstPass /\ SpeechError
    \/ FirstPass /\ ExitCommand
    \/ FirstPass /\ OptionBooking
    \/ FirstPass /\ ProcessUserInput

SpecHandlers == InitHandlers /\ [][NextHandlers]_vars

-----------------------------------------------------------------------------
(* Properties of the slot finder *)

\* two intervals share more than an end point
Overlaps(a, b) == a.start_time < b.end_time /\ b.start_time < a.end_time

PairwiseDisjoint(events) ==
    \A i, j \in 1..Len(events) : i # j => ~Overlaps(events[i], events[j])

\* C4: whenever find_optimal_slots returns for busy intervals that are pairwise
\* non-overlapping, every slot it returns lasts exactly the requested duration,
\* overlaps no busy interval, and no two of its slots overlap each other.
C4_SlotsFitTheGaps ==
    (call.op = "find_optimal_slots" /\ call.returned
        /\ PairwiseDisjoint(call.reply.events))
    => /\ \A k \in 1..Len(call.slots) :
            /\ call.slots[k].end_time - call.slots[k].start_time = call.duration_minutes
            /\ \A i \in 1..Len(call.reply.events) :
                  ~Overlaps(call.slots[k], call.reply.events[i])
       /\ \A k, l \in 1..Len(call.slots) :
            k # l => ~Overlaps(call.slots[k], call.slots[l])

\* a call that returned several slots around two busy intervals of the working day
C4_Witness ==
    /\ call.op = "find_optimal_slots" /\ call.returned
    /\ call.reply.status = "ok"
    /\ Len(call.reply.events) = 2
    /\ PairwiseDisjoint(call.reply.events)
    /\ \A i \in 1..2 : /\ 9 * 60 < call.reply.events[i].start_time
                       /\ call.reply.events[i].end_time < 17 * 60
    /\ Len(call.slots) >= 2

-----------------------------------------------------------------------------
(* Properties of the conversation.  In an action formula last_turn' is the  *)
(* pass of the loop the step takes and the unprimed fields are the agent    *)
(* before it.                                                                *)

\* the pass failed: nothing was recognised, or an exception reached the loop
Failed(turn) == turn.kind = "speech_error" \/ turn.raised

\* the utterance of the pass was `u`
HeardIs(turn, u) == turn.heard = Some(u)

\* the pass heard an utterance that names one of the slots last suggested
HeardValidOption(turn) ==
    /\ turn.heard # None
    /\ turn.kind \in {"option_booking", "processed"}
    /\ SelectsOption(turn.heard[1])

\* C1: in SHOWING_OPTIONS, an utterance whose option reference resolves to a
\* valid index k into the slots last offered records slot k as the selection
\* and moves the state to CONFIRMING_SELECTION.
C1_ValidOptionIsRecordedForConfirmation ==
    [][(state = "SHOWING_OPTIONS" /\ HeardValidOption(last_turn'))
       => /\ state' = "CONFIRMING_SELECTION"
          /\ selected_slot' =
                Some(last_suggested_slots[OptionNumber[last_turn'.heard[1]][1]])]_vars

\* the confirmation handler ran on an utterance that contains "yes"
ConfirmedWithYes(turn) ==
    /\ turn.handler = "confirmation"
    /\ turn.heard # None
    /\ SaysYes[turn.heard[1]]

C5_BookingOnlyWhileShowingOptions ==
    last_turn.booking # None => last_turn.from = "SHOWING_OPTIONS"

\* C6: after reset_conversation the state is GREETING, the request is a fresh
\* one, the slots last offered are empty, no slot is selected, the history is
\* empty and the error counter is 0.
C6_ResetClearsEveryField ==
    last_turn.reset
    => /\ state = "GREETING"
       /\ meeting_request = FreshMeetingRequest
       /\ last_suggested_slots = << >>
       /\ current_options = << >>
       /\ selected_slot = None
       /\ conversation_history = 0
       /\ current_retries = 0

\* C7 as amended: the retry ceiling is three.  A failed pass forces the reset
\* (state GREETING, fresh request, counter 0) exactly when it brings the error
\* counter to three, which is at the latest the third failed pass in a row; a
\* failed pass that does not force it adds one to the counter, and when it is
\* a recognition failure it leaves the state and the request untouched.
C7_ResetOnThirdFailure ==
    [][Failed(last_turn')
       => /\ last_turn'.reset <=> (current_retries + 1 >= 3)
          /\ (consecutive_failures + 1 >= 3) => last_turn'.reset
          /\ last_turn'.reset
             => /\ state' = "GREETING"
                /\ meeting_request' = FreshMeetingRequest
                /\ current_retries' = 0
          /\ ~last_turn'.reset
             => /\ current_retries' = current_retries + 1
                /\ (last_turn'.kind = "speech_error"
                    => UNCHANGED <<state, meeting_request>>)]_vars

\* a third failure in a row has just reset a conversation that had left GREETING
C7_Witness ==
    /\ last_turn.reset
    /\ last_turn.from # "GREETING"
    /\ state = "GREETING"
    /\ meeting_request = FreshMeetingRequest

\* C7 as the specification states it: the first four recognition failures in
\* a row leave the state and the request untouched.
C7_FourFailuresLeaveTheAgentUntouched ==
    [][(last_turn'.kind = "speech_error" /\ consecutive_failures + 1 <= 4)
       => UNCHANGED <<state, meeting_request>>]_vars

\* C8: a pass that COLLECTING_TIME_PREFERENCE handles.  No search runs exactly
\* when no date is known after the utterance is resolved, and then the state
\* stays; a date known beforehand always brings a search; a search that
\* returns nothing moves the state to HANDLING_CONFLICT, and one that returns
\* slots stores them as the slots last offered and moves it to SHOWING_OPTIONS.
C8_TimePreferenceTurn ==
    [][(state = "COLLECTING_TIME_PREFERENCE" /\ last_turn'.handler = "time_preference")
       => LET turn == last_turn'
          IN  /\ meeting_request.preferred_date # None => turn.search # None
              /\ ~turn.reset
                 => (meeting_request'.preferred_date = None <=> turn.search = None)
              /\ turn.search = None
                 => /\ ~turn.raised
                    /\ state' = "COLLECTING_TIME_PREFERENCE"
                    /\ UNCHANGED last_suggested_slots
              /\ turn.search # None
                 => /\ meeting_request.duration_minutes # None
                    /\ turn.raised <=> turn.search[1].raised
                    /\ (~turn.raised /\ turn.search[1].slots = << >>)
                       => /\ state' = "HANDLING_CONFLICT"
                          /\ UNCHANGED last_suggested_slots
                    /\ (~turn.raised /\ turn.search[1].slots # << >>)
                       => /\ state' = "SHOWING_OPTIONS"
                          /\ last_suggested_slots' = turn.search[1].slots]_vars

\* a search of this pass found every hour taken and the state became
\* HANDLING_CONFLICT
C8_Witness ==
    /\ last_turn.handler = "time_preference"
    /\ last_turn.from = "COLLECTING_TIME_PREFERENCE"
    /\ last_turn.search # None
    /\ last_turn.search[1].status = "ok"
    /\ last_turn.search[1].slots = << >>
    /\ state = "HANDLING_CONFLICT"

\* C9: in HANDLING_CONFLICT with the duration and the date known, the pass
\* that re-runs the slot search does not fail.
C9_ConflictRetryDoesNotFail ==
    [][(state = "HANDLING_CONFLICT" /\ last_turn'.handler = "conflict"
          /\ Truthy(meeting_request.duration_minutes)
          /\ Truthy(meeting_request.preferred_date))
       => ~last_turn'.raised]_vars

C11_GreetingTurn ==
    [][(state = "GREETING" /\ last_turn'.handler = "greeting")
       => LET user_input == last_turn'.heard[1]
          IN  /\ ~last_turn'.raised
              /\ MeetingKeyword[user_input]
                 => /\ Truthy(meeting_request'.duration_minutes)
                       => state' = "COLLECTING_TIME_PREFERENCE"
                    /\ ~Truthy(meeting_request'.duration_minutes)
                       => state' = "COLLECTING_DURATION"
                    /\ Truthy(meeting_request.duration_minutes)
                       => state' = "COLLECTING_TIME_PREFERENCE"
              /\ ~MeetingKeyword[user_input] => state' = "GREETING"]_vars

\* "schedule a meeting" in GREETING with the duration already known
C11_Witness ==
    /\ last_turn.handler = "greeting"
    /\ last_turn.from = "GREETING"
    /\ last_turn.heard = Some("schedule a meeting")
    /\ last_turn.booking = None
    /\ meeting_request.duration_minutes # None
    /\ state = "COLLECTING_TIME_PREFERENCE"

\* the pass heard an utterance whose number is not the number of a slot offered
HeardOutOfRangeOption(turn) ==
    /\ turn.heard # None
    /\ turn.kind \in {"option_booking", "processed"}
    /\ SelectionNumber[turn.heard[1]] # None
    /\ \/ SelectionNumber[turn.heard[1]][1] < 1
       \/ SelectionNumber[turn.heard[1]][1] > Len(last_suggested_slots)

\* C12: in SHOWING_OPTIONS, an utterance that names an option number outside
\* 1..(number of offered slots) leaves the state SHOWING_OPTIONS and makes no
\* booking call.
C12_OutOfRangeOptionBooksNothing ==
    [][(state = "SHOWING_OPTIONS" /\ HeardOutOfRangeOption(last_turn'))
       => /\ last_turn'.booking = None
          /\ (~last_turn'.raised => state' = "SHOWING_OPTIONS")]_vars

\* C13: when the list-events query of a slot search fails, no slot is offered:
\* the slots last offered are not replaced and, unless the failure is the one
\* that forces the reset, the state after the pass is the state before it.
C13_FailedQueryOffersNothing ==
    [][(last_turn'.search # None /\ last_turn'.search[1].status # "ok"
          /\ ~last_turn'.reset)
       => /\ state' = state
          /\ UNCHANGED last_suggested_slots]_vars

\* C14: a pass that the "check my schedule" interrupt answers is not a failed
\* pass.  (The interrupt raises only on the branch that has resolved a date.)
C14_ScheduleCheckDoesNotFail ==
    [][last_turn'.handler = "schedule_check" => ~last_turn'.raised]_vars

\* C15: in a pass that does not reset the conversation, every field of the
\* request that is known before the pass is known after it, so a field only
\* ever changes to a non-null value.
C15_KnownFieldsStayKnown ==
    [][~last_turn'.reset
       => /\ Truthy(meeting_request.duration_minutes)
             => Truthy(meeting_request'.duration_minutes)
          /\ Truthy(meeting_request.preferred_date)
             => Truthy(meeting_request'.preferred_date)
          /\ Truthy(meeting_request.time_range)
             => Truthy(meeting_request'.time_range)
          /\ meeting_request'.urgency \in {"high", "medium", "low"}
          /\ meeting_request'.flexibility \in {"flexible", "somewhat_flexible", "rigid"}]_vars

\* a request whose duration, date and time range are known after several
\* passes, the latest of which merged an extraction that held none of them anew
C15_Witness ==
    /\ last_turn.kind = "processed"
    /\ ~last_turn.raised
    /\ conversation_history >= 3
    /\ Truthy(meeting_request.duration_minutes)
    /\ Truthy(meeting_request.preferred_date)
    /\ Truthy(meeting_request.time_range)
    /\ meeting_request.urgency = "high"

\* C16: a pass that the option-selection fast path handles without an
\* exception appends one history record and leaves the error counter at 0.
C16_FastPathCountsAsSuccess ==
    [][(last_turn'.kind = "option_booking" /\ ~last_turn'.raised)
       => /\ conversation_history' = conversation_history + 1
          /\ current_retries' = 0]_vars

\* C17: whatever payload the extraction returns, the pass treats a bad one as
\* no information and goes on to the state handler: no pass ends inside
\* update_meeting_request (which the handler label "update" records), and a
\* failed pass below the ceiling has not changed the request.
C17_BadPayloadIsNoInformation ==
    [][last_turn'.kind = "processed"
       => /\ last_turn'.handler # "update"
          /\ (last_turn'.raised /\ ~last_turn'.reset /\ last_turn'.search = None)
             => UNCHANGED meeting_request]_vars

\* the utterances with "goodbye", "exit", "quit" or "stop" in them
HasWordOfFarewell ==
    [u \in Utterances |-> ContainsAny(u, {"goodbye", "exit", "quit", "stop"})]

\* C18: a recognised utterance that contains "goodbye", "exit", "quit" or
\* "stop" ends the loop in that pass, whatever the state: nothing is booked,
\* no field of the agent changes, and no pass follows the end of the loop.
C18_ExitEndsTheLoop ==
    [][/\ running
       /\ (last_turn'.heard # None
             /\ last_turn'.heard[1] \notin recognition_errors
             /\ HasWordOfFarewell[last_turn'.heard[1]])
          => /\ last_turn'.kind = "exit"
             /\ ~running'
             /\ last_turn'.booking = None
             /\ ~last_turn'.raised
             /\ UNCHANGED <<state, meeting_request, last_suggested_slots, current_options,
                            selected_slot, conversation_history, current_retries>>]_vars

\* the loop ended on an utterance that also names an offered slot
C18_Witness ==
    /\ ~running
    /\ last_turn.kind = "exit"
    /\ last_turn.heard = Some("exit option 1")
    /\ last_turn.from = "SHOWING_OPTIONS"
    /\ last_suggested_slots # << >>

-----------------------------------------------------------------------------
(* Properties of the slot finder: order and confidence *)

\* the candidate slots of the call, in the order the walk meets them
Candidates ==
    LET hours == WorkingHours(call.preferred_time_range)
    IN  WalkEvents(call.target_date, 1, hours[1], hours[2], call.duration_minutes,
                   SortByStart(get_events_for_date_range(call.reply).events))

\* slot a comes before slot b in the order of the result: a higher confidence,
\* or the same confidence and earlier in the day
RanksBefore(a, b) ==
    \/ a.confidence > b.confidence
    \/ a.confidence = b.confidence /\ a.start_time < b.start_time

\* C19: the list find_optimal_slots returns is the first max_slots candidates
\* in the order of descending confidence with ties in encounter order (earlier
\* in the day first); its confidences are non-increasing and each is at least
\* 0.1.
C19_BestSlotsFirst ==
    (call.op = "find_optimal_slots" /\ call.returned)
    => LET n == Len(call.slots)
           returned == {call.slots[k] : k \in 1..n}
           candidates == {Candidates[k] : k \in 1..Len(Candidates)}
       IN  /\ n = IF Len(Candidates) < call.max_slots
                  THEN Len(Candidates) ELSE call.max_slots
           /\ returned \subseteq candidates
           /\ \A k, l \in 1..n : k < l => RanksBefore(call.slots[k], call.slots[l])
           /\ \A k, l \in 1..n :
                 k < l => call.slots[k].confidence >= call.slots[l].confidence
           /\ \A c \in candidates \ returned :
                 \A k \in 1..n : RanksBefore(call.slots[k], c)
           /\ \A k \in 1..n : call.slots[k].confidence >= 1002

\* three candidates and room for two: the slot left out has the confidence of
\* the last slot returned and is later in the day
C19_Witness ==
    /\ call.op = "find_optimal_slots" /\ call.returned
    /\ Len(Candidates) = 3
    /\ call.max_slots = 2
    /\ Len(call.slots) = 2
    /\ call.slots[1].confidence > call.slots[2].confidence
    /\ call.slots[1].start_time > call.slots[2].start_time
    /\ \E k \in 1..3 :
          /\ Candidates[k].confidence = call.slots[2].confidence
          /\ Candidates[k].start_time > call.slots[2].start_time

\* c less 0.2, k times over
RECURSIVE Minus02Times(_, _)
Minus02Times(c, k) == IF k = 0 THEN c ELSE Minus02Times(FSub02(c), k - 1)

\* the events of the call that end from low (exclusive or not) up to under 15
\* minutes before the slot starts
EndingBefore(from_zero) ==
    {k \in 1..Len(call.events) :
        LET time_before == call.start_time - call.events[k].end_time
        IN  /\ time_before < 15
            /\ IF from_zero THEN 0 <= time_before ELSE 0 < time_before}

\* the events of the call that start more than 0 and less than 15 minutes
\* after the slot ends
StartingAfter ==
    {k \in 1..Len(call.events) :
        LET time_after == call.events[k].start_time
                          - (call.start_time + call.duration_minutes)
        IN  0 < time_after /\ time_after < 15}

\* the score of the call when neighbours is the number of penalised events
ScoreWith(neighbours) ==
    LET hour == call.start_time \div 60
    IN  Max2(1002, Minus02Times(TimeOfDayConfidence(hour), neighbours))

\* C20, as amended: 0.2 is subtracted once for every event that ends more than
\* 0 and less than 15 minutes before the slot starts and once for every event
\* that starts more than 0 and less than 15 minutes after the slot ends, the
\* penalties adding up, and then the score is floored at 0.1.  An event that
\* ends exactly when the slot starts costs nothing.
C20_NeighbourPenalties ==
    (call.op = "calculate_slot_confidence" /\ call.returned)
    => call.confidence
       = ScoreWith(Cardinality(EndingBefore(FALSE)) + Cardinality(StartingAfter))

\* an evening slot with an event ending as it starts, one ending a minute
\* before it and two starting within 15 minutes of its end: three penalties,
\* and the floor
C20_Witness ==
    /\ call.op = "calculate_slot_confidence" /\ call.returned
    /\ call.start_time = 18 * 60
    /\ \E k \in 1..Len(call.events) : call.events[k].end_time = call.start_time
    /\ Cardinality(EndingBefore(FALSE)) = 1
    /\ Cardinality(StartingAfter) = 2
    /\ Minus02Times(TimeOfDayConfidence(18), 3) < 1002
    /\ call.confidence = 1002

\* C20, as stated: an event that ends exactly when the slot starts (a gap of
\* 0) is penalised like one that ends up to under 15 minutes before it.
C20_GapOfZeroIsPenalised ==
    (call.op = "calculate_slot_confidence" /\ call.returned)
    => call.confidence
       = ScoreWith(Cardinality(EndingBefore(TRUE)) + Cardinality(StartingAfter))

\* the call of the example: one event from 10:00 to 10:30, the default window
\* and a meeting of 30 minutes
OneEventAtTen ==
    /\ call.op = "find_optimal_slots" /\ call.returned
    /\ call.reply = CalendarOk(<<Event(10 * 60, 10 * 60 + 30)>>)
    /\ call.preferred_time_range = None
    /\ call.duration_minutes = 30

\* the slots from 9:00 to 9:30 among the returned ones
NineOClockSlots ==
    {k \in 1..Len(call.slots) :
        call.slots[k].start_time = 9 * 60 /\ call.slots[k].end_time = 9 * 60 + 30}

\* C21, as amended: with one event from 10:00 to 10:30, the default window and
\* a meeting of 30 minutes, the slot from 9:00 to 9:30 is returned with the
\* confidence the same slot has on a day with no events (the event starts 30
\* minutes after the slot ends, which is not within 15 minutes).
C21_HalfAnHourAwayCostsNothing ==
    OneEventAtTen
    => /\ NineOClockSlots # {}
       /\ \A k \in NineOClockSlots :
             call.slots[k].confidence = calculate_slot_confidence(9 * 60, 30, << >>)

C21_Witness ==
    /\ OneEventAtTen
    /\ call.max_slots = 2
    /\ Len(call.slots) = 2
    /\ NineOClockSlots = {2}
    /\ call.slots[2].confidence = 10000

\* C21, as stated: the slot from 9:00 to 9:30 is returned with a confidence
\* that is lower, by the penalty of 0.2, than on a day with no events.
C21_SlotBeforeTheEventIsPenalised ==
    OneEventAtTen
    => /\ NineOClockSlots # {}
       /\ \A k \in NineOClockSlots :
             /\ call.slots[k].confidence < calculate_slot_confidence(9 * 60, 30, << >>)
             /\ call.slots[k].confidence
                = FSub02(calculate_slot_confidence(9 * 60, 30, << >>))

\* the time-of-day score of a slot as C22 states it: the start time, not the
\* hour, decides whether the slot is outside 09:00-17:00
StatedTimeOfDay(start_time) ==
    LET hour == start_time \div 60
    IN  IF hour \in {10, 11} THEN 11984
        ELSE IF hour \in {14, 15} THEN 11032
        ELSE IF hour \in {12, 13} THEN 9008
        ELSE IF start_time < 9 * 60 \/ start_time > 17 * 60 THEN 6984
        ELSE 10000

\* C22: from 1.0, a slot starting in hour 10 or 11 gets +0.2, in hour 14 or 15
\* +0.1, in hour 12 or 13 -0.1, and a slot starting before 09:00 or after 17:00
\* (17:30, say) -0.3; with no event near the slot that is its score.
C22_TimeOfDayScore ==
    (/\ call.op = "calculate_slot_confidence" /\ call.returned
     /\ EndingBefore(FALSE) = {} /\ StartingAfter = {})
    => call.confidence = StatedTimeOfDay(call.start_time)

\* a start/end-hour pair or {start_hour, end_hour} object whose two bounds are
\* hours of the day
WellFormedRange(preferred_time_range) ==
    /\ preferred_time_range # None
    /\ preferred_time_range[1].kind \in {"dict", "tuple"}
    /\ preferred_time_range[1].start_hour.tag = "num"
    /\ preferred_time_range[1].end_hour.tag = "num"
    /\ ValidTimeOfDay(preferred_time_range[1].start_hour.val)
    /\ ValidTimeOfDay(preferred_time_range[1].end_hour.val)

\* C23: find_optimal_slots does not fail because of its preferred_time_range:
\* when the calendar answers, the call returns, and for a range that is not
\* well formed (an end_hour of 24, say) it returns the slots of the default
\* window.
C23_RangeNeverFails ==
    (/\ call.op = "find_optimal_slots"
     /\ call.reply.status # "exception"
     /\ call.returned \/ call.raised)
    => /\ call.returned
       /\ ~WellFormedRange(call.preferred_time_range)
          => call.slots = find_optimal_slots(call.reply, call.target_date,
                                             call.duration_minutes, None,
                                             call.max_slots).slots

-----------------------------------------------------------------------------
(* Properties of the date resolver *)

\* parse_complex_date has returned for a text with the word in it
Resolved(word) ==
    /\ call.op = "parse_complex_date" /\ call.returned
    /\ Contains(call.text, word)

\* C24: a text with "tomorrow" in it (and not "next week") resolves to the
\* day after the reference date, or two days after it when the text has "day
\* after tomorrow" in it; the result is never None and owes nothing to the
\* fuzzy parser.
C24_TomorrowIsResolved ==
    (Resolved("tomorrow") /\ ~Contains(call.text, "next week"))
    => /\ call.result # None
       /\ call.result
          = IF Contains(call.text, "day after tomorrow")
            THEN Some(call.today + 2) ELSE Some(call.today + 1)

\* the index in `weekdays` of the weekday the text "next <weekday>" names
NamedAfterNext ==
    {w \in 1..7 : call.text = "next " \o weekdays[w]}

\* the Monday-to-Sunday week a date lies in
WeekOf(date) == date \div 7

ThisMondayOnAWednesday ==
    /\ call.op = "parse_complex_date" /\ call.returned
    /\ call.text = "this monday"
    /\ Weekday(call.today) = 2

\* C26, as amended: on a Wednesday "this monday" resolves to the following
\* Monday, 5 days after the reference date, and not to the Monday of the
\* reference week.
C26_ThisMondayIsFiveDaysOn ==
    ThisMondayOnAWednesday
    => /\ call.result = Some(call.today + 5)
       /\ Weekday(call.result[1]) = 0
       /\ call.result[1] > call.today
       /\ call.result[1] # call.today - 2

C26_Witness ==
    /\ ThisMondayOnAWednesday
    /\ call.result # None
    /\ WeekOf(call.result[1]) = WeekOf(call.today) + 1
    /\ call.result[1] - call.today = 5

\* C26, as stated: on a Wednesday "this monday" resolves to the following
\* Monday, 6 days after the reference date.
C26_ThisMondayIsSixDaysOn ==
    ThisMondayOnAWednesday
    => /\ call.result = Some(call.today + 6)
       /\ Weekday(call.result[1]) = 0

\* C27: a text with "next week" in it resolves to 7 days after the reference
\* date when it has neither "early" nor "late" in it, to 8 days with "early"
\* only and to 10 days with "late" only, whatever else is in the text and
\* whatever the fuzzy parser makes of it.
C27_NextWeekComesFirst ==
    Resolved("next week")
    => LET early == Contains(call.text, "early")
           late == Contains(call.text, "late")
       IN  /\ (~early /\ ~late) => call.result = Some(call.today + 7)
           /\ (early /\ ~late) => call.result = Some(call.today + 8)
           /\ (~early /\ late) => call.result = Some(call.today + 10)

\* a text in which a weekday pattern matches too, and would give another date
C27_Witness ==
    /\ Resolved("next week")
    /\ call.text = "next monday next week"
    /\ PatternDate(call.text, call.today) = Some(call.today + 5)
    /\ call.fuzzy # None
    /\ call.result = Some(call.today + 7)

\* C28, as amended: when a "next week" text has both "early" and "late" in it,
\* only the increment of "late" is applied: the result is 7 + 3 = 10 days
\* after the reference date.
C28_LateOverridesEarly ==
    (Resolved("next week") /\ Contains(call.text, "early") /\ Contains(call.text, "late"))
    => call.result = Some(call.today + 10)

C28_Witness ==
    /\ Resolved("next week")
    /\ call.text = "early or late next week"
    /\ call.result = Some(call.today + 10)

\* C28, as stated: with both "early" and "late" both increments are applied,
\* 7 + 1 + 3 = 11 days after the reference date.
C28_BothIncrementsApply ==
    (Resolved("next week") /\ Contains(call.text, "early") /\ Contains(call.text, "late"))
    => call.result = Some(call.today + 11)

\* C29: every slot find_optimal_slots returns lies inside the working window:
\* it starts at or after the start of the window and ends at or before its
\* end, whatever the busy intervals are.
C29_SlotsInsideTheWindow ==
    (call.op = "find_optimal_slots" /\ call.returned)
    => LET hours == WorkingHours(call.preferred_time_range)
       IN  \A k \in 1..Len(call.slots) :
              /\ hours[1] <= call.slots[k].start_time
              /\ call.slots[k].end_time <= hours[2]

-----------------------------------------------------------------------------
(* Properties of the conversation: bookings *)

\* the pass recorded in `turn` booked a slot and the calendar accepted it
Booked(turn) == turn.booking # None /\ turn.booking[1].result = "success"

\* C30: two successful bookings are separated by a new slot search: a pass
\* that books a slot leaves the conversation COMPLETE or the offered list
\* empty, and a pass that follows a booking books nothing unless it searched.
C30_NoSecondBookingFromTheSameList ==
    [][/\ Booked(last_turn')
          => (state' = "COMPLETE" \/ last_suggested_slots' = << >>)
       /\ (Booked(last_turn) /\ Booked(last_turn'))
          => /\ last_turn'.search # None
             /\ last_turn'.booking[1].slot # last_turn.booking[1].slot]_vars

\* the option an utterance of the model refers to, as C31 reads it: the
\* ordinal word or "option k" in it, and none in "none of these"
StatedOption(user_input) ==
    IF Contains(user_input, "second") \/ Contains(user_input, "option 2") THEN Some(2)
    ELSE IF Contains(user_input, "first") \/ user_input = "option 1" THEN Some(1)
    ELSE IF user_input = "option 5" THEN Some(5)
    ELSE None

\* C31: an utterance with the ordinal word for k or "option k" in it acts on
\* option k: "the second one" books the second offered slot and nothing else,
\* and "none of these", which refers to no option, books nothing.
C31_SecondOneMeansTheSecondSlot ==
    [][/\ LoopActive
       /\ last_turn'.heard # None
       /\ last_turn'.heard[1] \in {"the second one", "none of these"}
       => LET option == StatedOption(last_turn'.heard[1])
          IN  /\ option = None => last_turn'.booking = None
              /\ (option # None /\ last_turn'.booking # None)
                 => /\ option[1] <= Len(last_suggested_slots)
                    /\ last_turn'.booking[1].slot = last_suggested_slots[option[1]]]_vars

=============================================================================
